---- MODULE Spec2Model ----
(***************************************************************************)
(* Model of the RIP nesting optimizer of roll_nesting_finder_app/app.py    *)
(* (tab 2): tile_width_only, expand, pack, length, optimize and the        *)
(* "Run RIP Optimizer" handler.                                            *)
(*                                                                         *)
(* Numbers.  The program computes with Python numbers, which never         *)
(* overflow.  Every length of the model is an exact rational, stored as    *)
(* its integer numerator over the common denominator Den = lcm(1..5), so   *)
(* that the division (w + (n-1)*OVERLAP) / n of tile_width_only is exact   *)
(* for every n it tries when the inputs are whole centimetres.  Areas are  *)
(* numerators over Den*Den; they exceed the range of TLC's integers and    *)
(* are carried in two limbs (see Big).                                     *)
(***************************************************************************)
EXTENDS Integers, Sequences, FiniteSets, TLC

VARIABLES
    ROLL_WIDTH,     \* sidebar input "Roll Width (cm)", in units of 1/Den cm
    OVERLAP,        \* sidebar input "Tile Overlap (cm)", in units of 1/Den cm
    ITERATIONS,     \* sidebar input "Optimization Passes"
    jobs,           \* list of (pid, w, h, q) built from the panel inputs
    pc,             \* position of the run
    pieces,         \* handler's `pieces`: None, or Some(list of pieces)
    free,           \* pack: list of free rectangles (fx, fy, fw, fh)
    placed,         \* pack: list of placements (pid, x, y, w, h)
    k,              \* pack: index of the piece the for-loop is at
    best,           \* pack: `best` of the last placement step
    layout,         \* optimize: value returned by the last pack call
    best_len,       \* optimize: best_len
    best_layout,    \* optimize: best_layout
    pass,           \* optimize: number of passes completed
    tried,          \* history: the lengths l computed in the passes so far
    result,         \* handler: (best, total) returned by optimize
    arg_w,          \* tile_width_only called on its own: argument w
    arg_roll,       \* tile_width_only called on its own: argument roll
    calls           \* tile_width_only called on its own: (OVERLAP, result) list

vars == <<ROLL_WIDTH, OVERLAP, ITERATIONS, jobs, pc, pieces, free, placed, k,
          best, layout, best_len, best_layout, pass, tried, result,
          arg_w, arg_roll, calls>>

runVars == <<pc, pieces, free, placed, k, best, layout, best_len,
             best_layout, pass, tried, result>>

tileVars == <<arg_w, arg_roll, calls>>

-----------------------------------------------------------------------------
(* Bounds of the model. *)

MaxPanels == 2      \* panel_count of the sidebar
MaxPieces == 3      \* pieces a run expands to
MaxPasses == 2      \* ITERATIONS
MaxCalls == 2       \* calls of tile_width_only on one (w, roll)

-----------------------------------------------------------------------------
(* Numbers and Python values. *)

TileCounts == <<1, 2, 3, 4, 5>>

Den == 3 * 4 * 5

Cm(x) == x * Den

SENTINEL == 10000

None == <<>>

Some(v) == <<v>>

\* Truth value of a list-or-None in `if x:` / `if not x:`.
TruthyList(o) == o # None /\ o[1] # <<>>

\* Truth value of a number-or-None.
TruthyNum(o) == o # None /\ o[1] # 0

\* Exact product and difference of areas, as hi * Limb + lo with 0 <= lo < Limb.
Limb == 2 ^ 10

BigMul(a, b) ==
    LET a1 == a \div Limb
        a0 == a % Limb
    IN  <<a1 * b + ((a0 * b) \div Limb), (a0 * b) % Limb>>

BigSub(p, q) ==
    IF p[2] >= q[2] THEN <<p[1] - q[1], p[2] - q[2]>>
    ELSE <<p[1] - q[1] - 1, p[2] - q[2] + Limb>>

BigLess(p, q) == p[1] < q[1] \/ (p[1] = q[1] /\ p[2] < q[2])

-----------------------------------------------------------------------------
(* TILING *)

NotFittable == <<None, None>>

\* tileFrom with the bound compared strictly (w < ... for w <= ...).
RECURSIVE tileFromStrict(_, _, _)
tileFromStrict(i, w, roll) ==
    IF i > Len(TileCounts) THEN NotFittable
    ELSE LET n == TileCounts[i] IN
         IF w < n * roll - (n - 1) * OVERLAP
         THEN <<Some((w + (n - 1) * OVERLAP) \div n), Some(n)>>
         ELSE tileFromStrict(i + 1, w, roll)

\* tileFrom with the overlap added to the bound instead of subtracted.
RECURSIVE tileFromPlus(_, _, _)
tileFromPlus(i, w, roll) ==
    IF i > Len(TileCounts) THEN NotFittable
    ELSE LET n == TileCounts[i] IN
         IF w <= n * roll + (n - 1) * OVERLAP
         THEN <<Some((w + (n - 1) * OVERLAP) \div n), Some(n)>>
         ELSE tileFromPlus(i + 1, w, roll)

\* Lines 100-103: the loop of tile_width_only from the i-th tile count on.
RECURSIVE tileFrom(_, _, _)
tileFrom(i, w, roll) ==
    IF i > Len(TileCounts) THEN NotFittable
    ELSE LET n == TileCounts[i] IN
         IF w <= n * roll - (n - 1) * OVERLAP
         THEN <<Some((w + (n - 1) * OVERLAP) \div n), Some(n)>>
         ELSE tileFrom(i + 1, w, roll)

tile_width_only(w, roll) == tileFrom(1, w, roll)

RECURSIVE Repeat(_, _)
Repeat(x, m) == IF m = 0 THEN <<>> ELSE <<x>> \o Repeat(x, m - 1)

\* expandFrom that skips a panel with no tiling instead of giving up.
RECURSIVE expandFromSkip(_, _, _)
expandFromSkip(js, i, acc) ==
    IF i > Len(js) THEN Some(acc)
    ELSE LET pid == js[i][1]
             w == js[i][2]
             h == js[i][3]
             q == js[i][4]
             t == tile_width_only(w, ROLL_WIDTH)
         IN  IF t[1] = None THEN expandFromSkip(js, i + 1, acc)
             ELSE LET tile_w == t[1][1]
                      n == t[2][1]
                      piece == [pid |-> pid,
                                orientations |-> << <<tile_w, h>>, <<h, tile_w>> >>]
                  IN  expandFromSkip(js, i + 1, acc \o Repeat(piece, q * n))

\* Lines 106-117: expand's loop from the i-th job on, acc the pieces so far.
RECURSIVE expandFrom(_, _, _)
expandFrom(js, i, acc) ==
    IF i > Len(js) THEN Some(acc)
    ELSE LET pid == js[i][1]
             w == js[i][2]
             h == js[i][3]
             q == js[i][4]
             t == tile_width_only(w, ROLL_WIDTH)
         IN  IF t[1] = None THEN None
             ELSE LET tile_w == t[1][1]
                      n == t[2][1]
                      piece == [pid |-> pid,
                                orientations |-> << <<tile_w, h>>, <<h, tile_w>> >>]
                  IN  expandFrom(js, i + 1, acc \o Repeat(piece, q * n))

expand(js) == expandFrom(js, 1, <<>>)

-----------------------------------------------------------------------------
(* GUILLOTINE PACKER *)

Waste(fw, fh, w, h) == BigSub(BigMul(fh, fw), BigMul(h, w))

\* consider that lets an equal waste replace best (<= for <).
considerLeq(b, f, o) ==
    LET w == o[1]
        h == o[2]
    IN  IF w <= f[3] /\ h <= f[4]
        THEN LET waste == Waste(f[3], f[4], w, h) IN
             IF b = None \/ ~BigLess(b[1][1], waste)
             THEN Some(<<waste, f[1], f[2], f[3], f[4], w, h>>)
             ELSE b
        ELSE b

\* consider with the comparison reversed: the larger waste wins.
considerWorst(b, f, o) ==
    LET w == o[1]
        h == o[2]
    IN  IF w <= f[3] /\ h <= f[4]
        THEN LET waste == Waste(f[3], f[4], w, h) IN
             IF b = None \/ BigLess(b[1][1], waste)
             THEN Some(<<waste, f[1], f[2], f[3], f[4], w, h>>)
             ELSE b
        ELSE b

\* Lines 130-133: one (free rectangle, orientation) pair against `best`.
consider(b, f, o) ==
    LET w == o[1]
        h == o[2]
    IN  IF w <= f[3] /\ h <= f[4]
        THEN LET waste == Waste(f[3], f[4], w, h) IN
             IF b = None \/ BigLess(waste, b[1][1])
             THEN Some(<<waste, f[1], f[2], f[3], f[4], w, h>>)
             ELSE b
        ELSE b

\* The two nested for-loops of lines 128-129, pair number c onwards.
RECURSIVE scan(_, _, _, _)
scan(fr, p, c, b) ==
    LET no == Len(p.orientations) IN
    IF c > Len(fr) * no THEN b
    ELSE scan(fr, p, c + 1,
              consider(b, fr[((c - 1) \div no) + 1], p.orientations[((c - 1) % no) + 1]))

find_best(fr, p) == scan(fr, p, 1, None)

\* remove that leaves the list as it is (the used rectangle stays free).
removeNothing(s, x) == s

\* list.remove: drops the first element equal to x.
RECURSIVE remove(_, _)
remove(s, x) ==
    IF s = <<>> THEN <<>>
    ELSE IF Head(s) = x THEN Tail(s)
    ELSE <<Head(s)>> \o remove(Tail(s), x)

\* split whose bottom region is only as wide as the piece.
splitNarrowBottom(fr, b) ==
    LET fx == b[2]
        fy == b[3]
        fw == b[4]
        fh == b[5]
        w == b[6]
        h == b[7]
        right == <<fx + w, fy, fw - w, h>>
        bottom == <<fx, fy + h, w, fh - h>>
        removed == remove(fr, <<fx, fy, fw, fh>>)
        withRight == IF right[3] > 0 /\ right[4] > 0
                     THEN Append(removed, right) ELSE removed
    IN  IF bottom[3] > 0 /\ bottom[4] > 0
        THEN Append(withRight, bottom) ELSE withRight

\* Lines 140-148: the free list after placing the piece chosen in tuple b.
split(fr, b) ==
    LET fx == b[2]
        fy == b[3]
        fw == b[4]
        fh == b[5]
        w == b[6]
        h == b[7]
        right == <<fx + w, fy, fw - w, h>>
        bottom == <<fx, fy + h, fw, fh - h>>
        removed == remove(fr, <<fx, fy, fw, fh>>)
        withRight == IF right[3] > 0 /\ right[4] > 0
                     THEN Append(removed, right) ELSE removed
    IN  IF bottom[3] > 0 /\ bottom[4] > 0
        THEN Append(withRight, bottom) ELSE withRight

initial_free == << <<0, 0, ROLL_WIDTH, Cm(SENTINEL)>> >>

\* max(y + h for _, _, y, _, h in placed); undefined on the empty list.
length(pl) ==
    LET ends == {pl[i][3] + pl[i][5] : i \in 1..Len(pl)}
    IN  CHOOSE m \in ends : \A e \in ends : e <= m

\* The orders random.shuffle can leave the list in.
Shuffles(s) ==
    {[i \in 1..Len(s) |-> s[perm[i]]] : perm \in Permutations(1..Len(s))}

-----------------------------------------------------------------------------
(* The run: sidebar inputs, then the "Run RIP Optimizer" handler. *)

\* What the sidebar of one panel can hold: (w, h, q), whole centimetres.
PanelInputs ==
    { <<0, 0, 0>>, <<50, 50, 1>>, <<50, 50, 2>>, <<50, 6000, 1>>, <<50, 6000, 2>>,
      <<50, 4000, 1>>, <<100, 120, 1>>, <<300, 50, 1>>, <<700, 50, 1>> }

RollWidths == {100, 137}

Overlaps == {0, 1}

\* Lines 87-94: the jobs list keeps the panels with w, h, q all positive.
RECURSIVE jobsFrom(_, _)
jobsFrom(panels, i) ==
    IF i > Len(panels) THEN <<>>
    ELSE LET w == panels[i][1]
             h == panels[i][2]
             q == panels[i][3]
         IN  IF w > 0 /\ h > 0 /\ q > 0
             THEN << <<i, Cm(w), Cm(h), q>> >> \o jobsFrom(panels, i + 1)
             ELSE jobsFrom(panels, i + 1)

PanelChoices ==
    UNION {[1..panel_count -> PanelInputs] : panel_count \in 1..MaxPanels}

PieceCount(js) ==
    LET e == expand(js) IN IF e = None THEN 0 ELSE Len(e[1])

\* The sidebar offers 20..500 passes; every pass is a fresh shuffle and pack,
\* and the model runs a few.
PassCounts == 1..MaxPasses

RunInit ==
    /\ pc = "start"
    /\ pieces = None
    /\ free = <<>>
    /\ placed = <<>>
    /\ k = 0
    /\ best = None
    /\ layout = None
    /\ best_len = None
    /\ best_layout = None
    /\ pass = 0
    /\ tried = {}
    /\ result = None

Init ==
    /\ ROLL_WIDTH \in {Cm(r) : r \in RollWidths}
    /\ OVERLAP \in {Cm(o) : o \in Overlaps}
    /\ ITERATIONS \in PassCounts
    /\ jobs \in {jobsFrom(panels, 1) : panels \in PanelChoices}
    /\ PieceCount(jobs) <= MaxPieces
    /\ RunInit
    /\ arg_w = 0
    /\ arg_roll = 0
    /\ calls = <<>>

inputVars == <<ROLL_WIDTH, OVERLAP, ITERATIONS, jobs>>

\* Line 177.
Expand ==
    /\ pc = "start"
    /\ pieces' = expand(jobs)
    /\ pc' = "expanded"
    /\ UNCHANGED <<free, placed, k, best, layout, best_len, best_layout, pass,
                   tried, result>>
    /\ UNCHANGED <<inputVars, tileVars>>

\* Lines 178-180.
Stop ==
    /\ pc = "expanded"
    /\ ~TruthyList(pieces)
    /\ pc' = "stopped"
    /\ UNCHANGED <<pieces, free, placed, k, best, layout, best_len, best_layout,
                   pass, tried, result>>
    /\ UNCHANGED <<inputVars, tileVars>>

\* Lines 182, 159-160: optimize is entered.
Optimize ==
    /\ pc = "expanded"
    /\ TruthyList(pieces)
    /\ best_len' = None
    /\ best_layout' = None
    /\ pass' = 0
    /\ pc' = IF 0 < ITERATIONS THEN "shuffle" ELSE "optimized"
    /\ UNCHANGED <<pieces, free, placed, k, best, layout, tried, result>>
    /\ UNCHANGED <<inputVars, tileVars>>

\* Lines 163, 123-124: the list is shuffled in place and pack starts on it.
Shuffle ==
    /\ pc = "shuffle"
    /\ \E s \in Shuffles(pieces[1]) : pieces' = Some(s)
    /\ free' = initial_free
    /\ placed' = <<>>
    /\ k' = 1
    /\ best' = None
    /\ pc' = "pack"
    /\ UNCHANGED <<layout, best_len, best_layout, pass, tried, result>>
    /\ UNCHANGED <<inputVars, tileVars>>

\* Lines 126-148: one iteration of pack's loop that places the piece.
Place ==
    /\ pc = "pack"
    /\ k <= Len(pieces[1])
    /\ LET p == pieces[1][k]
           b == find_best(free, p)
       IN  /\ b # None
           /\ best' = b
           /\ placed' = Append(placed, <<p.pid, b[1][2], b[1][3], b[1][6], b[1][7]>>)
           /\ free' = split(free, b[1])
    /\ k' = k + 1
    /\ UNCHANGED <<pc, pieces, layout, best_len, best_layout, pass, tried, result>>
    /\ UNCHANGED <<inputVars, tileVars>>

\* PlaceFail that leaves the loop and returns what was placed so far.
PlaceFailPartial ==
    /\ pc = "pack"
    /\ k <= Len(pieces[1])
    /\ find_best(free, pieces[1][k]) = None
    /\ best' = None
    /\ layout' = Some(placed)
    /\ pc' = "packed"
    /\ UNCHANGED <<pieces, free, placed, k, best_len, best_layout, pass, tried,
                   result>>
    /\ UNCHANGED <<inputVars, tileVars>>

\* Lines 126-136: the iteration that finds no fitting pair; pack returns None.
PlaceFail ==
    /\ pc = "pack"
    /\ k <= Len(pieces[1])
    /\ find_best(free, pieces[1][k]) = None
    /\ best' = None
    /\ layout' = None
    /\ pc' = "packed"
    /\ UNCHANGED <<pieces, free, placed, k, best_len, best_layout, pass, tried,
                   result>>
    /\ UNCHANGED <<inputVars, tileVars>>

\* Line 150: the loop is over; pack returns placed.
PackReturn ==
    /\ pc = "pack"
    /\ k > Len(pieces[1])
    /\ layout' = Some(placed)
    /\ pc' = "packed"
    /\ UNCHANGED <<pieces, free, placed, k, best, best_len, best_layout, pass,
                   tried, result>>
    /\ UNCHANGED <<inputVars, tileVars>>

\* keep_best that keeps the layout of the latest successful pass.
keep_last(lay, bl, blay) ==
    IF TruthyList(lay)
    THEN <<Some(length(lay[1])), lay>>
    ELSE <<bl, blay>>

\* Lines 165-169: optimize's use of the value pack returned.
keep_best(lay, bl, blay) ==
    IF TruthyList(lay)
    THEN LET l == length(lay[1]) IN
         IF ~TruthyNum(bl) \/ l < bl[1]
         THEN <<Some(l), lay>>
         ELSE <<bl, blay>>
    ELSE <<bl, blay>>

EndPass ==
    /\ pc = "packed"
    /\ LET kept == keep_best(layout, best_len, best_layout)
       IN  /\ best_len' = kept[1]
           /\ best_layout' = kept[2]
    /\ tried' = IF TruthyList(layout) THEN tried \cup {length(layout[1])} ELSE tried
    /\ pass' = pass + 1
    /\ pc' = IF pass + 1 < ITERATIONS THEN "shuffle" ELSE "optimized"
    \* pack's locals and the pass's layout are dead from here on
    /\ free' = <<>>
    /\ placed' = <<>>
    /\ k' = 0
    /\ best' = None
    /\ layout' = None
    /\ UNCHANGED <<pieces, result>>
    /\ UNCHANGED <<inputVars, tileVars>>

\* Lines 171, 182-184: optimize returns; total/100 raises when total is None.
Return ==
    /\ pc = "optimized"
    /\ result' = Some(<<best_layout, best_len>>)
    /\ pc' = IF best_len = None THEN "raised" ELSE "shown"
    /\ UNCHANGED <<pieces, free, placed, k, best, layout, best_len, best_layout,
                   pass, tried>>
    /\ UNCHANGED <<inputVars, tileVars>>

Next ==
    \/ Expand
    \/ Stop
    \/ Optimize
    \/ Shuffle
    \/ Place
    \/ PlaceFail
    \/ PackReturn
    \/ EndPass
    \/ Return

Spec == Init /\ [][Next]_vars

-----------------------------------------------------------------------------
(* Runs of 10 passes on a 137 roll, the demand a single panel: the spec's   *)
(* concrete scenario and its neighbours.                                    *)

ScenarioPanels ==
    { <<50, 50, 4>>, <<50, 50, 1>>, <<50, 6000, 2>>, <<50, 6000, 3>>,
      <<100, 120, 2>>, <<300, 50, 1>>, <<300, 6000, 1>>, <<700, 50, 1>> }

InitScenario ==
    /\ ROLL_WIDTH = Cm(137)
    /\ OVERLAP \in {Cm(o) : o \in Overlaps}
    /\ ITERATIONS = 10
    /\ jobs \in {jobsFrom(<<panel>>, 1) : panel \in ScenarioPanels}
    /\ RunInit
    /\ arg_w = 0
    /\ arg_roll = 0
    /\ calls = <<>>

SpecScenario == InitScenario /\ [][Next]_vars

-----------------------------------------------------------------------------
(* tile_width_only on its own: one (w, roll), called under the overlaps the  *)
(* sidebar is set to between the calls.                                      *)

TileWidths == {50, 100, 137, 138, 199, 273, 274, 300, 409, 410, 500, 545, 546,
               681, 682, 685, 686, 700}

TileOverlaps == {0, 1, 2, 30}

InitTile ==
    /\ arg_w \in {Cm(w) : w \in TileWidths}
    /\ arg_roll \in {Cm(r) : r \in RollWidths}
    /\ OVERLAP \in {Cm(o) : o \in TileOverlaps}
    /\ ROLL_WIDTH = arg_roll
    /\ ITERATIONS = 1
    /\ jobs = <<>>
    /\ RunInit
    /\ calls = <<>>

CallTile ==
    /\ Len(calls) < MaxCalls
    /\ calls' = Append(calls, <<OVERLAP, tile_width_only(arg_w, arg_roll)>>)
    /\ UNCHANGED <<inputVars, runVars, arg_w, arg_roll>>

SetOverlap ==
    /\ calls # <<>>
    /\ Len(calls) < MaxCalls
    /\ \E o \in TileOverlaps : Cm(o) # OVERLAP /\ OVERLAP' = Cm(o)
    /\ UNCHANGED <<ROLL_WIDTH, ITERATIONS, jobs, runVars, tileVars>>

NextTile ==
    \/ CallTile
    \/ SetOverlap

SpecTile == InitTile /\ [][NextTile]_vars

-----------------------------------------------------------------------------
(* Claims about the tiler. *)

\* The bound of the spec's tiler for tile count n under overlap o.
FitsBound(w, roll, o, n) == w <= n * roll - (n - 1) * o

\* C5: every call tile_width_only(w, roll) under overlap o returns (strip, N)
\* with N the smallest of 1..5 such that w <= N*roll - (N-1)*o and
\* N*strip = w + (N-1)*o, and returns (None, None) exactly when no N of 1..5
\* satisfies the bound; w <= roll gives (w, 1); w = 300, roll = 137, o = 1
\* gives N = 3 with 3*strip = 302.
C5_TileContract ==
    \A i \in 1..Len(calls) :
        LET o == calls[i][1]
            r == calls[i][2]
        IN  /\ (r = NotFittable) <=> ~(\E n \in 1..5 : FitsBound(arg_w, arg_roll, o, n))
            /\ r # NotFittable =>
                 /\ r[1] # None /\ r[2] # None
                 /\ r[2][1] \in 1..5
                 /\ FitsBound(arg_w, arg_roll, o, r[2][1])
                 /\ \A m \in 1..(r[2][1] - 1) : ~FitsBound(arg_w, arg_roll, o, m)
                 /\ r[2][1] * r[1][1] = arg_w + (r[2][1] - 1) * o
            /\ arg_w <= arg_roll => r = <<Some(arg_w), Some(1)>>
            /\ (arg_w = Cm(300) /\ arg_roll = Cm(137) /\ o = Cm(1)) =>
                 /\ r[2] = Some(3)
                 /\ 3 * r[1][1] = Cm(302)

\* C5 witness: w = 300 was tiled on a 137 roll under overlap 1 into 3 strips,
\* and (the overlap then set to 30) the same width was tiled again.
C5_Witness ==
    /\ arg_w = Cm(300) /\ arg_roll = Cm(137)
    /\ Len(calls) = 2
    /\ calls[1] = <<Cm(1), <<Some(Cm(302) \div 3), Some(3)>> >>
    /\ calls[2][1] = Cm(30)

\* NotFittable counts as larger than every tile count.
TileRank(r) == IF r = NotFittable THEN Len(TileCounts) + 1 ELSE r[2][1]

\* C6: for one (w, roll), of two calls the one under the larger (or equal)
\* overlap never yields the smaller tile count, NotFittable counting as
\* larger than every N.
C6_Monotonic ==
    \A i, j \in 1..Len(calls) :
        calls[i][1] <= calls[j][1] => TileRank(calls[i][2]) <= TileRank(calls[j][2])

\* C6 witness: w = 682 on a 137 roll is tiled into 5 strips under overlap 0
\* and is NotFittable under overlap 1.
C6_Witness ==
    /\ arg_w = Cm(682) /\ arg_roll = Cm(137)
    /\ Len(calls) = 2
    /\ calls[1] = <<Cm(0), <<Some(Cm(682) \div 5), Some(5)>> >>
    /\ calls[2] = <<Cm(1), NotFittable>>

-----------------------------------------------------------------------------
(* Claims about expand. *)

\* The tile count the spec's tiler chooses for width w: the least N of 1..5
\* within the bound (0 when there is none).
SpecTileCount(w) ==
    IF \E n \in 1..5 : FitsBound(w, ROLL_WIDTH, OVERLAP, n)
    THEN CHOOSE n \in 1..5 :
            /\ FitsBound(w, ROLL_WIDTH, OVERLAP, n)
            /\ \A m \in 1..(n - 1) : ~FitsBound(w, ROLL_WIDTH, OVERLAP, m)
    ELSE 0

\* C7: expand(jobs) returns None (no pieces at all) if any demand, at any
\* position, has no tiling; otherwise for each demand (id, w, h, q) tiled as
\* (strip, N) exactly q*N pieces carry that id, each with the orientations
\* (strip, h), (h, strip) in that order, and there are no other pieces.
C7_Expand ==
    pc = "expanded" =>
        IF \E j \in 1..Len(jobs) : SpecTileCount(jobs[j][2]) = 0
        THEN pieces = None
        ELSE /\ pieces # None
             /\ \A i \in 1..Len(pieces[1]) :
                    \E j \in 1..Len(jobs) : pieces[1][i].pid = jobs[j][1]
             /\ \A j \in 1..Len(jobs) :
                    LET id == jobs[j][1]
                        w == jobs[j][2]
                        h == jobs[j][3]
                        q == jobs[j][4]
                        N == SpecTileCount(w)
                        mine == {i \in 1..Len(pieces[1]) : pieces[1][i].pid = id}
                    IN  /\ Cardinality(mine) = q * N
                        /\ \A i \in mine :
                              LET o == pieces[1][i].orientations IN
                              /\ Len(o) = 2
                              /\ N * o[1][1] = w + (N - 1) * OVERLAP
                              /\ o[1][2] = h
                              /\ o[2] = <<h, o[1][1]>>

\* C7 witness: expand gave up on a run whose first demand has a tiling and
\* whose second has none.
C7_Witness ==
    /\ pc = "expanded"
    /\ pieces = None
    /\ Len(jobs) = 2
    /\ SpecTileCount(jobs[1][2]) = 3
    /\ SpecTileCount(jobs[2][2]) = 0

-----------------------------------------------------------------------------
(* Claims about pack. *)

\* Two placements (pid, x, y, w, h) share no interior area.
Disjoint(a, b) ==
    \/ a[2] + a[4] <= b[2]
    \/ b[2] + b[4] <= a[2]
    \/ a[3] + a[5] <= b[3]
    \/ b[3] + b[5] <= a[3]

\* C1: the rectangles of every layout pack returns are pairwise
\* non-overlapping, and each has 0 <= x and x + w <= ROLL_WIDTH.
C1_NoOverlapInWidth ==
    (pc = "packed" /\ layout # None) =>
        /\ \A i, j \in 1..Len(layout[1]) :
              i < j => Disjoint(layout[1][i], layout[1][j])
        /\ \A i \in 1..Len(layout[1]) :
              /\ 0 <= layout[1][i][2]
              /\ layout[1][i][2] + layout[1][i][4] <= ROLL_WIDTH

\* C1 witness: pack returned a layout of three pieces of two panels, with a
\* piece beside another (x > 0) and a piece below another (y > 0).
C1_Witness ==
    /\ pc = "packed"
    /\ layout # None
    /\ Len(layout[1]) = 3
    /\ \E i, j \in 1..3 : layout[1][i][1] # layout[1][j][1]
    /\ \E i \in 1..3 : layout[1][i][2] > 0
    /\ \E i \in 1..3 : layout[1][i][3] > 0

\* C2: pack returns None, or a layout with exactly one placement per input
\* piece, in input order and with that piece's panel id.
C2_AllOrNothing ==
    pc = "packed" =>
        \/ layout = None
        \/ /\ Len(layout[1]) = Len(pieces[1])
           /\ \A i \in 1..Len(pieces[1]) : layout[1][i][1] = pieces[1][i].pid

\* C2 witness: pack failed on the third piece after placing two, and
\* returned None.
C2_Witness ==
    /\ pc = "packed"
    /\ layout = None
    /\ Len(placed) = 2
    /\ Len(pieces[1]) = 3

-----------------------------------------------------------------------------
(* Claims about optimize and the run. *)

SetMin(S) == CHOOSE m \in S : \A x \in S : m <= x

\* C3: when at least one pass of a run packed successfully, the length
\* optimize returns is the minimum of the lengths of the successful passes
\* and the layout it returns has that length.
C3_BestIsMinimum ==
    (pc \in {"shown", "raised"} /\ tried # {}) =>
        /\ result # None
        /\ result[1][2] = Some(SetMin(tried))
        /\ result[1][1] # None
        /\ result[1][1][1] # <<>>
        /\ length(result[1][1][1]) = SetMin(tried)

\* C3 witness: a run returned after two passes that packed to different
\* lengths, and returned the shorter one.
C3_Witness ==
    /\ pc = "shown"
    /\ Cardinality(tried) = 2
    /\ result[1][2] = Some(SetMin(tried))

\* C4: a run on an empty demand list does not fail: it ends with optimize
\* having returned the empty layout and the length 0.
C4_EmptyDemand ==
    (jobs = <<>> /\ pc \in {"stopped", "shown", "raised"}) =>
        /\ pc = "shown"
        /\ result = Some(<<Some(<<>>), Some(0)>>)

\* The demand of the spec's scenario: one panel, 50 x 50, quantity 4.
ScenarioRun ==
    /\ jobs = << <<1, Cm(50), Cm(50), 4>> >>
    /\ ROLL_WIDTH = Cm(137)
    /\ ITERATIONS = 10

\* C8: on four 50 x 50 pieces, a 137 roll and 10 passes, whatever the
\* shuffles, no pass and no step of the run fails and optimize returns a
\* length of at most 100.
C8_Scenario ==
    ScenarioRun =>
        /\ pc \notin {"stopped", "raised"}
        /\ pc = "packed" => layout # None
        /\ pc = "shown" =>
              /\ result[1][1] # None
              /\ Len(result[1][1][1]) = 4
              /\ result[1][2] # None
              /\ result[1][2][1] <= Cm(100)

\* C8 witness: the scenario's run ended after its 10 passes with two rows
\* of two pieces, length 100.
C8_Witness ==
    /\ ScenarioRun
    /\ pc = "shown"
    /\ pass = 10
    /\ result[1][2] = Some(Cm(100))

-----------------------------------------------------------------------------
(* Claims about the placement step of pack. *)

\* The (free rectangle, orientation) pairs of a step, in iteration order:
\* pair <<i, j>> is free rectangle i with orientation j of the piece.
StepPairs(fr, p) == (1..Len(fr)) \X (1..Len(p.orientations))

PairFits(fr, p, c) ==
    /\ p.orientations[c[2]][1] <= fr[c[1]][3]
    /\ p.orientations[c[2]][2] <= fr[c[1]][4]

PairWaste(fr, p, c) ==
    Waste(fr[c[1]][3], fr[c[1]][4], p.orientations[c[2]][1], p.orientations[c[2]][2])

PairBefore(c, d) == c[1] < d[1] \/ (c[1] = d[1] /\ c[2] < d[2])

\* The list s without its i-th element.
Without(s, i) == SubSeq(s, 1, i - 1) \o SubSeq(s, i + 1, Len(s))

\* C9: a step of pack that places a piece chooses a pair in which the piece
\* fits, of minimal leftover area over the fitting pairs, the first such in
\* iteration order; places the piece at the rectangle's origin; removes the
\* rectangle; and appends the right region (x+w, y, fw-w, h) and the bottom
\* region (x, y+h, fw, fh-h), each only when both its dimensions are > 0.
C9_PlacementStep ==
    [][ (pc = "pack" /\ k' = k + 1) =>
          \E c \in StepPairs(free, pieces[1][k]) :
             LET p == pieces[1][k]
                 f == free[c[1]]
                 w == p.orientations[c[2]][1]
                 h == p.orientations[c[2]][2]
                 right == <<f[1] + w, f[2], f[3] - w, h>>
                 bottom == <<f[1], f[2] + h, f[3], f[4] - h>>
             IN  /\ PairFits(free, p, c)
                 /\ \A d \in StepPairs(free, p) :
                       PairFits(free, p, d) =>
                          /\ ~BigLess(PairWaste(free, p, d), PairWaste(free, p, c))
                          /\ PairBefore(d, c) =>
                                BigLess(PairWaste(free, p, c), PairWaste(free, p, d))
                 /\ placed' = Append(placed, <<p.pid, f[1], f[2], w, h>>)
                 /\ free' = Without(free, c[1])
                              \o (IF f[3] - w > 0 /\ h > 0 THEN <<right>> ELSE <<>>)
                              \o (IF f[3] > 0 /\ f[4] - h > 0 THEN <<bottom>> ELSE <<>>)
      ]_vars

\* C9 witness: a step placed a piece whose two orientations differ and both
\* fit the chosen rectangle (equal leftover area), in orientation 0, from a
\* free list of several rectangles.
C9_Witness ==
    /\ pc = "pack"
    /\ k > 2
    /\ best # None
    /\ LET o == pieces[1][k - 1].orientations
       IN  /\ o[1] # o[2]
           /\ o[2][1] <= best[1][4] /\ o[2][2] <= best[1][5]
           /\ <<best[1][6], best[1][7]>> = o[1]
    /\ Len(free) >= 3

-----------------------------------------------------------------------------
(* Claims about the sentinel length. *)

\* The length consumed by the placements so far.
Consumed == IF placed = <<>> THEN 0 ELSE length(placed)

RECURSIVE SumMax(_)
SumMax(ps) ==
    IF ps = <<>> THEN 0
    ELSE LET o == Head(ps).orientations[1]
         IN  (IF o[1] >= o[2] THEN o[1] ELSE o[2]) + SumMax(Tail(ps))

\* C10: during pack, while the consumed length is below 10000 the free list
\* holds a rectangle with x = 0 and width ROLL_WIDTH that ends at 10000; and
\* pack returns None only when the pieces' max(strip width, height) sum to
\* more than 10000.
C10_FullWidthRect ==
    /\ (pc = "pack" /\ Consumed < Cm(SENTINEL)) =>
          \E i \in 1..Len(free) :
             /\ free[i][1] = 0
             /\ free[i][3] = ROLL_WIDTH
             /\ free[i][2] + free[i][4] = Cm(SENTINEL)
    /\ (pc = "packed" /\ layout = None) => SumMax(pieces[1]) > Cm(SENTINEL)

\* C10 witness: pack returned a layout for two pieces whose max(strip,
\* height) sum to exactly 10000 and that consumed the whole sentinel length.
C10_Witness ==
    /\ pc = "packed"
    /\ layout # None
    /\ Len(placed) = 2
    /\ SumMax(pieces[1]) = Cm(SENTINEL)
    /\ Consumed = Cm(SENTINEL)

====
